---- MODULE Spec2Model ----
(***************************************************************************)
(* AI Secretary (src/ai_secretary.py): the interactive read loop, the      *)
(* request pipeline classify -> extract -> remap -> dispatch -> execute -> *)
(* enrich -> respond, the six handlers, the Time Normalizer retry loop and *)
(* the two gateways (language model, task store).                          *)
(*                                                                         *)
(* Text is modelled as TLA+ strings, character by character: the regular   *)
(* expressions, str.strip, str.lower, the substring test and strptime are  *)
(* operators computed over the characters as the Python code computes      *)
(* them.                                                                   *)
(***************************************************************************)
EXTENDS Integers, Sequences, FiniteSets, TLC

(***************************************************************************)
(* Characters and strings                                                  *)
(***************************************************************************)
UpperAlpha == "ABCDEFGHIJKLMNOPQRSTUVWXYZ"
LowerAlpha == "abcdefghijklmnopqrstuvwxyz"
DigitChars == "0123456789"
NL == "\n"

\* The i-th character of s, as a one-character string.
CharAt(s, i) == SubSeq(s, i, i)

IsSpace(c) == c \in {" ", "\n", "\t"}

\* F applied to the value of v, which is computed once.
Bind(v, F(_)) == CHOOSE r \in {F(b) : b \in {v}} : TRUE

DigitOf == [c \in {CharAt(DigitChars, i) : i \in 1..10} |->
               (CHOOSE i \in 1..10 : CharAt(DigitChars, i) = c) - 1]

IsDigit(c) == c \in DOMAIN DigitOf

DigitVal(c) == DigitOf[c]

LowerOf == [c \in {CharAt(UpperAlpha, i) : i \in 1..26} |->
               CharAt(LowerAlpha, CHOOSE i \in 1..26 : CharAt(UpperAlpha, i) = c)]

UpperOf == [c \in {CharAt(LowerAlpha, i) : i \in 1..26} |->
               CharAt(UpperAlpha, CHOOSE i \in 1..26 : CharAt(LowerAlpha, i) = c)]

\* str.lower() on one character (ASCII letters).
LowerChar(c) == IF c \in DOMAIN LowerOf THEN LowerOf[c] ELSE c

RECURSIVE LowerRange(_, _, _)
\* str.lower() on the characters a..b of s, by halves.
LowerRange(s, a, b) ==
    IF a > b THEN ""
    ELSE IF a = b THEN LowerChar(CharAt(s, a))
    ELSE LowerRange(s, a, (a + b) \div 2) \o LowerRange(s, ((a + b) \div 2) + 1, b)

\* str.lower()
Lower(s) == LowerRange(s, 1, Len(s))

\* The least element of a set of positions, and `none` for the empty set:
\* where a left-to-right scan stops.
FirstOf(positions, none) ==
    IF positions = {} THEN none
    ELSE CHOOSE q \in positions : \A r \in positions : q <= r

RECURSIVE FirstNonSpace(_, _)
\* The least position >= i of s holding no whitespace, Len(s) + 1 when none.
FirstNonSpace(s, i) ==
    IF i <= Len(s) /\ IsSpace(CharAt(s, i)) THEN FirstNonSpace(s, i + 1) ELSE i

RECURSIVE LastNonSpace(_, _)
\* The greatest position <= i of s holding no whitespace, 0 when none.
LastNonSpace(s, i) ==
    IF i >= 1 /\ IsSpace(CharAt(s, i)) THEN LastNonSpace(s, i - 1) ELSE i

\* str.strip()
Strip(s) == SubSeq(s, FirstNonSpace(s, 1), LastNonSpace(s, Len(s)))

\* The literal lit occurs in s starting at position p.
MatchAt(s, p, lit) ==
    /\ p >= 1
    /\ p + Len(lit) - 1 <= Len(s)
    /\ SubSeq(s, p, p + Len(lit) - 1) = lit

\* The same under re.IGNORECASE, for a literal written in lower case.
MatchAtI(s, p, lit) ==
    /\ p >= 1
    /\ p + Len(lit) - 1 <= Len(s)
    /\ Lower(SubSeq(s, p, p + Len(lit) - 1)) = lit

\* The least position >= p at which lit occurs in s, 0 when there is none
\* (a left-to-right scan, as str.find and a lazy (.*?) before a literal do).
Find(s, lit, p) == FirstOf({q \in p..(Len(s) - Len(lit) + 1) : MatchAt(s, q, lit)}, 0)

\* The same under re.IGNORECASE.
FindI(s, lit, p) == FirstOf({q \in p..(Len(s) - Len(lit) + 1) : MatchAtI(s, q, lit)}, 0)

\* Python's `sub in s`.
Contains(s, sub) == Find(s, sub, 1) # 0

\* The least position >= p holding a whitespace character, Len(s) + 1 when
\* there is none: where a lazy (.*?) followed by (?:$|\s) stops.
FindSpace(s, p) == FirstOf({q \in p..Len(s) : IsSpace(CharAt(s, q))}, Len(s) + 1)

RECURSIVE JoinLines(_)
\* "\n".join(lines)
JoinLines(lines) ==
    IF Len(lines) = 0 THEN ""
    ELSE IF Len(lines) = 1 THEN lines[1]
    ELSE lines[1] \o NL \o JoinLines(Tail(lines))

Min(a, b) == IF a <= b THEN a ELSE b

(***************************************************************************)
(* Calendar values: a date is [y, mo, d]; a datetime adds H, M, S.         *)
(***************************************************************************)
IsLeap(y) == (y % 4 = 0 /\ y % 100 # 0) \/ y % 400 = 0

DaysInMonth(y, mo) ==
    IF mo = 2 THEN (IF IsLeap(y) THEN 29 ELSE 28)
    ELSE IF mo \in {4, 6, 9, 11} THEN 30
    ELSE 31

\* date + timedelta(days=1)
NextDay(dt) ==
    IF dt.d < DaysInMonth(dt.y, dt.mo) THEN [y |-> dt.y, mo |-> dt.mo, d |-> dt.d + 1]
    ELSE IF dt.mo < 12 THEN [y |-> dt.y, mo |-> dt.mo + 1, d |-> 1]
    ELSE [y |-> dt.y + 1, mo |-> 1, d |-> 1]

\* datetime.date()
DateOf(t) == [y |-> t.y, mo |-> t.mo, d |-> t.d]

\* datetime.combine(date, time)
Combine(dt, tm) == [y |-> dt.y, mo |-> dt.mo, d |-> dt.d, H |-> tm.H, M |-> tm.M, S |-> 0]

\* Dates as one number, for ordering only.
DateKey(dt) == (dt.y * 100 + dt.mo) * 100 + dt.d

(***************************************************************************)
(* strptime.  Each directive is the regular expression _strptime compiles  *)
(* it to; a field operator returns <<characters consumed, value>>, with 0  *)
(* characters when the directive does not match at p.  The alternatives of *)
(* a directive are tried in the order written, and a shorter alternative   *)
(* can never rescue a failed longer one here: the character after it would *)
(* be a digit where the format wants a separator or the end.               *)
(***************************************************************************)
DigitAt(s, p) == p >= 1 /\ p <= Len(s) /\ IsDigit(CharAt(s, p))

Num1(s, p) == DigitVal(CharAt(s, p))

Num2(s, p) == 10 * Num1(s, p) + Num1(s, p + 1)

NoField == <<0, 0>>

\* %Y : \d\d\d\d
ReYear(s, p) ==
    IF DigitAt(s, p) /\ DigitAt(s, p + 1) /\ DigitAt(s, p + 2) /\ DigitAt(s, p + 3)
    THEN <<4, 100 * Num2(s, p) + Num2(s, p + 2)>>
    ELSE NoField

\* %m and %I : 1[0-2]|0[1-9]|[1-9]
ReMonth(s, p) ==
    IF DigitAt(s, p) /\ DigitAt(s, p + 1) /\ Num1(s, p) = 1 /\ Num1(s, p + 1) <= 2
    THEN <<2, Num2(s, p)>>
    ELSE IF DigitAt(s, p) /\ DigitAt(s, p + 1) /\ Num1(s, p) = 0 /\ Num1(s, p + 1) >= 1
    THEN <<2, Num2(s, p)>>
    ELSE IF DigitAt(s, p) /\ Num1(s, p) >= 1
    THEN <<1, Num1(s, p)>>
    ELSE NoField

\* %d : 3[0-1]|[1-2]\d|0[1-9]|[1-9]| [1-9]
ReDay(s, p) ==
    IF DigitAt(s, p) /\ DigitAt(s, p + 1) /\ Num1(s, p) = 3 /\ Num1(s, p + 1) <= 1
    THEN <<2, Num2(s, p)>>
    ELSE IF DigitAt(s, p) /\ DigitAt(s, p + 1) /\ Num1(s, p) \in {1, 2}
    THEN <<2, Num2(s, p)>>
    ELSE IF DigitAt(s, p) /\ DigitAt(s, p + 1) /\ Num1(s, p) = 0 /\ Num1(s, p + 1) >= 1
    THEN <<2, Num2(s, p)>>
    ELSE IF DigitAt(s, p) /\ Num1(s, p) >= 1
    THEN <<1, Num1(s, p)>>
    ELSE IF MatchAt(s, p, " ") /\ DigitAt(s, p + 1) /\ Num1(s, p + 1) >= 1
    THEN <<2, Num1(s, p + 1)>>
    ELSE NoField

\* %H : 2[0-3]|[0-1]\d|\d
ReHour24(s, p) ==
    IF DigitAt(s, p) /\ DigitAt(s, p + 1) /\ Num1(s, p) = 2 /\ Num1(s, p + 1) <= 3
    THEN <<2, Num2(s, p)>>
    ELSE IF DigitAt(s, p) /\ DigitAt(s, p + 1) /\ Num1(s, p) <= 1
    THEN <<2, Num2(s, p)>>
    ELSE IF DigitAt(s, p)
    THEN <<1, Num1(s, p)>>
    ELSE NoField

\* %M : [0-5]\d|\d
ReMinute(s, p) ==
    IF DigitAt(s, p) /\ DigitAt(s, p + 1) /\ Num1(s, p) <= 5
    THEN <<2, Num2(s, p)>>
    ELSE IF DigitAt(s, p)
    THEN <<1, Num1(s, p)>>
    ELSE NoField

RECURSIVE ReSpaces(_, _)
\* A blank in the format : \s+ (the number of whitespace characters at p)
ReSpaces(s, p) ==
    IF p <= Len(s) /\ IsSpace(CharAt(s, p)) THEN 1 + ReSpaces(s, p + 1) ELSE 0

\* %p : am|pm under IGNORECASE; 0 no match, 1 am, 2 pm
ReAmPm(s, p) ==
    IF MatchAtI(s, p, "am") THEN 1 ELSE IF MatchAtI(s, p, "pm") THEN 2 ELSE 0

ParseFail == [ok |-> FALSE]

\* The year-month-day part shared by "%Y-%m-%d" and "%Y-%m-%d %H:%M":
\* [ok, y, mo, d, next] with next the position after the day.  The year
\* takes four characters, so the month starts at 6.
ReYmd(s) ==
    Bind(ReYear(s, 1), LAMBDA fy :
    Bind(ReMonth(s, 6), LAMBDA fm :
    Bind(ReDay(s, 7 + fm[1]), LAMBDA fd :
        IF /\ fy[1] > 0
           /\ MatchAt(s, 5, "-")
           /\ fm[1] > 0
           /\ MatchAt(s, 6 + fm[1], "-")
           /\ fd[1] > 0
        THEN [ok |-> TRUE, y |-> fy[2], mo |-> fm[2], d |-> fd[2],
              next |-> 7 + fm[1] + fd[1]]
        ELSE ParseFail)))

\* datetime(y, mo, d, ...) rejects year 0 and a day the month does not have.
ValidYmd(r) == r.y >= 1 /\ r.d <= DaysInMonth(r.y, r.mo)

\* datetime.strptime(s, "%Y-%m-%d").date() ; ParseFail stands for ValueError
strptime_date(s) ==
    Bind(ReYmd(s), LAMBDA r :
        IF r.ok /\ r.next = Len(s) + 1 /\ ValidYmd(r)
        THEN [ok |-> TRUE, date |-> [y |-> r.y, mo |-> r.mo, d |-> r.d]]
        ELSE ParseFail)

\* The " %H:%M" part of "%Y-%m-%d %H:%M" from position p: [ok, H, M].
ReHourMinute(s, p) ==
    Bind(ReSpaces(s, p), LAMBDA ns :
    Bind(ReHour24(s, p + ns), LAMBDA fh :
    Bind(ReMinute(s, p + ns + fh[1] + 1), LAMBDA fm :
        IF /\ ns > 0
           /\ fh[1] > 0
           /\ MatchAt(s, p + ns + fh[1], ":")
           /\ fm[1] > 0
           /\ p + ns + fh[1] + 1 + fm[1] = Len(s) + 1
        THEN [ok |-> TRUE, H |-> fh[2], M |-> fm[2]]
        ELSE ParseFail)))

\* datetime.strptime(s, "%Y-%m-%d %H:%M") ; ParseFail stands for ValueError
strptime_datetime(s) ==
    Bind(ReYmd(s), LAMBDA r :
        IF ~r.ok THEN ParseFail
        ELSE Bind(ReHourMinute(s, r.next), LAMBDA t :
                IF t.ok /\ ValidYmd(r)
                THEN [ok |-> TRUE,
                      dt |-> [y |-> r.y, mo |-> r.mo, d |-> r.d,
                              H |-> t.H, M |-> t.M, S |-> 0]]
                ELSE ParseFail))

\* The hour of the day of a 12-hour clock reading; ap is 1 for AM, 2 for PM.
Hour24(h12, ap) ==
    IF ap = 1 THEN (IF h12 = 12 THEN 0 ELSE h12)
    ELSE (IF h12 = 12 THEN 12 ELSE h12 + 12)

\* datetime.strptime(s, "%I:%M %p").time() ; ParseFail stands for ValueError
strptime_time(s) ==
    Bind(ReMonth(s, 1), LAMBDA fi :
    Bind(ReMinute(s, 2 + fi[1]), LAMBDA fm :
    Bind(ReSpaces(s, 2 + fi[1] + fm[1]), LAMBDA ns :
    Bind(ReAmPm(s, 2 + fi[1] + fm[1] + ns), LAMBDA ap :
        IF /\ fi[1] > 0
           /\ MatchAt(s, 1 + fi[1], ":")
           /\ fm[1] > 0
           /\ ns > 0
           /\ ap > 0
           /\ 2 + fi[1] + fm[1] + ns + 2 = Len(s) + 1
        THEN [ok |-> TRUE, tm |-> [H |-> Hour24(fi[2], ap), M |-> fm[2]]]
        ELSE ParseFail))))

(***************************************************************************)
(* Formatting                                                              *)
(***************************************************************************)
Pad2(n) == CharAt(DigitChars, ((n \div 10) % 10) + 1) \o CharAt(DigitChars, (n % 10) + 1)

Pad4(n) == Pad2(n \div 100) \o Pad2(n % 100)

\* str(date) and date.strftime('%Y-%m-%d')
FmtDate(dt) == Pad4(dt.y) \o "-" \o Pad2(dt.mo) \o "-" \o Pad2(dt.d)

\* str(datetime), for a datetime with no microseconds
FmtDateTime(t) == FmtDate(t) \o " " \o Pad2(t.H) \o ":" \o Pad2(t.M) \o ":" \o Pad2(t.S)

\* datetime.strftime('%Y-%m-%dT%H:%M:%S')
FmtIso(t) == FmtDate(t) \o "T" \o Pad2(t.H) \o ":" \o Pad2(t.M) \o ":" \o Pad2(t.S)

\* datetime.strftime('%I:%M %p')
FmtTime12(t) ==
    Pad2(IF t.H % 12 = 0 THEN 12 ELSE t.H % 12) \o ":" \o Pad2(t.M) \o " "
        \o (IF t.H < 12 THEN "AM" ELSE "PM")

(***************************************************************************)
(* Intent (lines 13-19): the enumeration in declaration order, which is    *)
(* the order `for intent in Intent` visits.  A member is modelled by its   *)
(* value, the tag classify_intent looks for.                               *)
(***************************************************************************)
TASK_MANAGEMENT == "task_management"
TASK_QUERY      == "task_query"
PRODUCTIVITY    == "productivity"
LOCATION_QUERY  == "location_query"
GENERAL_QUERY   == "general_query"
UNKNOWN         == "unknown"

Intent == <<TASK_MANAGEMENT, TASK_QUERY, PRODUCTIVITY, LOCATION_QUERY, GENERAL_QUERY, UNKNOWN>>

Intents == {Intent[i] : i \in 1..Len(Intent)}

None == "None"

RECURSIVE FirstTagFrom(_, _)
\* Lines 38-42: the loop over Intent returning the first member whose value
\* is in response_text, and UNKNOWN after the loop.
FirstTagFrom(response_text, k) ==
    IF k > Len(Intent) THEN UNKNOWN
    ELSE IF Contains(response_text, Intent[k]) THEN Intent[k]
    ELSE FirstTagFrom(response_text, k + 1)

\* A classifier that skips the lower-casing of line 36: what the
\* classification property is measured against.
classify_intent_cased(llm_text) == FirstTagFrom(Strip(llm_text), 1)

\* classify_intent on the text the model returned (lines 36-42).
classify_intent(llm_text) == FirstTagFrom(Lower(Strip(llm_text)), 1)

(***************************************************************************)
(* The regular expressions of extract_structured_data and                  *)
(* handle_productivity.  user_input is a line read by input(): it holds no *)
(* newline, so `.` matches every character of it and `$` only its end.     *)
(***************************************************************************)
RECURSIVE AltLenI(_, _, _)
\* (?:a|b|c) under IGNORECASE at p: the length of the first alternative
\* that matches, 0 when none does.
AltLenI(s, p, alts) ==
    IF Len(alts) = 0 THEN 0
    ELSE IF MatchAtI(s, p, Head(alts)) THEN Len(Head(alts))
    ELSE AltLenI(s, p, Tail(alts))

TaskVerbs == <<"add", "modify", "complete">>
TaskNouns == <<"task", "todo">>
DueWords  == <<"on", "at", "for">>

\* "(?:add|modify|complete) (?:task|todo) " at p: the position after it, 0
\* when it does not match there.
TaskHeadEnd(s, p) ==
    Bind(AltLenI(s, p, TaskVerbs), LAMBDA v :
    Bind(AltLenI(s, p + v + 1, TaskNouns), LAMBDA n :
        IF /\ v > 0
           /\ MatchAt(s, p + v, " ")
           /\ n > 0
           /\ MatchAt(s, p + v + 1 + n, " ")
        THEN p + v + 1 + n + 1
        ELSE 0))

\* re.search: the leftmost position >= p at which the head matches; returns
\* the position where group 1 starts, 0 when there is no match.
SearchTaskHead(s, p) ==
    Bind(FirstOf({q \in p..Len(s) : TaskHeadEnd(s, q) # 0}, 0), LAMBDA q :
        IF q = 0 THEN 0 ELSE TaskHeadEnd(s, q))

\* (.*?)(?:on|at|for|$) from q: the first position at which on, at or for
\* starts, or the end of the string.
LazyUntilDueWord(s, q) ==
    FirstOf({r \in q..Len(s) : AltLenI(s, r, DueWords) > 0}, Len(s) + 1)

\* Line 53: [ok, g1] for r'(?:add|modify|complete) (?:task|todo) (.*?)(?:on|at|for|$)'
task_match(s) ==
    Bind(SearchTaskHead(s, 1), LAMBDA q :
        IF q = 0 THEN [ok |-> FALSE]
        ELSE [ok |-> TRUE, g1 |-> SubSeq(s, q, LazyUntilDueWord(s, q) - 1)])

\* "(?:on|at|for) " at p: the position after it, 0 when it does not match
\* there.
DueHeadEnd(s, p) ==
    Bind(AltLenI(s, p, DueWords), LAMBDA w :
        IF w > 0 /\ MatchAt(s, p + w, " ") THEN p + w + 1 ELSE 0)

\* "(?:on|at|for) " searched from p: the position where group 1 starts, 0
\* when there is no match.
SearchDueHead(s, p) ==
    Bind(FirstOf({q \in p..Len(s) : DueHeadEnd(s, q) # 0}, 0), LAMBDA q :
        IF q = 0 THEN 0 ELSE DueHeadEnd(s, q))

\* Line 55: [ok, g1] for r'(?:on|at|for) (.*?)(?:$|\s)'
date_time_match(s) ==
    Bind(SearchDueHead(s, 1), LAMBDA q :
        IF q = 0 THEN [ok |-> FALSE]
        ELSE [ok |-> TRUE, g1 |-> SubSeq(s, q, FindSpace(s, q) - 1)])

\* Line 58: [ok, g1, g2] for r'from (.*?) to (.*?)(?:$|\s)'.  The lazy group 1
\* ends at the first " to " after the leftmost "from "; when that "from "
\* has no " to " after it, no later one has.
date_range_match(s) ==
    Bind(FindI(s, "from ", 1), LAMBDA f :
        IF f = 0 THEN [ok |-> FALSE]
        ELSE Bind(FindI(s, " to ", f + 5), LAMBDA t :
                IF t = 0 THEN [ok |-> FALSE]
                ELSE [ok |-> TRUE,
                      g1 |-> SubSeq(s, f + 5, t - 1),
                      g2 |-> SubSeq(s, t + 4, FindSpace(s, t + 4) - 1)]))

RECURSIVE findall_actions(_, _)
\* Line 153: re.findall(r'ACTION: (.*?) \| TIME: (.*?) \| DURATION: (.*?)(?:\n|$)',
\* advice, re.DOTALL) from position p: the triples, left to right.  Under
\* DOTALL each lazy group runs to the first occurrence of the literal that
\* follows it, across lines.
findall_actions(s, p) ==
    Bind(Find(s, "ACTION: ", p), LAMBDA a :
    Bind(IF a = 0 THEN 0 ELSE Find(s, " | TIME: ", a + 8), LAMBDA t :
    Bind(IF t = 0 THEN 0 ELSE Find(s, " | DURATION: ", t + 9), LAMBDA d :
    Bind(IF d = 0 THEN 0 ELSE Find(s, NL, d + 13), LAMBDA n :
        IF d = 0 THEN <<>>
        ELSE <<[action   |-> SubSeq(s, a + 8, t - 1),
                time     |-> SubSeq(s, t + 9, d - 1),
                duration |-> SubSeq(s, d + 13, (IF n = 0 THEN Len(s) + 1 ELSE n) - 1)]>>
             \o (IF n = 0 THEN <<>> ELSE findall_actions(s, n + 1))))))

\* extract_date_time (lines 44-48): the parsed datetime, or now.
extract_date_time(text, now) ==
    Bind(strptime_datetime(text), LAMBDA r : IF r.ok THEN r.dt ELSE now)

\* The message of the ValueError strptime raises on s for "%Y-%m-%d".
strptime_date_error(s) ==
    Bind(ReYmd(s), LAMBDA r :
        IF ~r.ok THEN "time data '" \o s \o "' does not match format '%Y-%m-%d'"
        ELSE IF r.next # Len(s) + 1
        THEN "unconverted data remains: " \o SubSeq(s, r.next, Len(s))
        ELSE IF r.y < 1 THEN "year 0 is out of range"
        ELSE "day is out of range for month")

\* Which prompts extract_structured_data issues (lines 54 and 56).
NeedsNamePrompt(s, i) == i = TASK_MANAGEMENT /\ ~task_match(s).ok

NeedsDuePrompt(s, i) == i = TASK_MANAGEMENT /\ ~date_time_match(s).ok

\* Lines 52-56: the TASK_MANAGEMENT fields.
extract_task(s, name_line, due_line, now) ==
    Bind(task_match(s), LAMBDA tm :
    Bind(date_time_match(s), LAMBDA dm :
        [task_name |-> IF tm.ok THEN Strip(tm.g1) ELSE name_line,
         due       |-> extract_date_time(IF dm.ok THEN dm.g1 ELSE due_line, now)]))

\* Lines 60-61 on a matched range: the two dates, or the ValueError of the
\* first strptime that fails.
extract_range(m) ==
    Bind(strptime_date(m.g1), LAMBDA d1 :
    Bind(strptime_date(m.g2), LAMBDA d2 :
        IF ~d1.ok THEN [ok |-> FALSE, error |-> strptime_date_error(m.g1)]
        ELSE IF ~d2.ok THEN [ok |-> FALSE, error |-> strptime_date_error(m.g2)]
        ELSE [ok |-> TRUE, data |-> [start_date |-> d1.date, end_date |-> d2.date]]))

\* An extraction whose line 65 leaves UNKNOWN out, so that an UNKNOWN request
\* gets an empty dictionary: what the UNKNOWN-as-GENERAL_QUERY property is
\* measured against.
extract_structured_data_known(s, i, name_line, due_line, now) ==
    IF i = TASK_MANAGEMENT THEN
        [ok |-> TRUE, data |-> extract_task(s, name_line, due_line, now)]
    ELSE IF i = TASK_QUERY THEN
        Bind(date_range_match(s), LAMBDA m :
            IF m.ok THEN extract_range(m)
            ELSE [ok |-> TRUE,
                  data |-> [start_date |-> DateOf(now), end_date |-> NextDay(DateOf(now))]])
    ELSE IF i \in {PRODUCTIVITY, LOCATION_QUERY, GENERAL_QUERY} THEN
        [ok |-> TRUE, data |-> [query |-> s]]
    ELSE [ok |-> TRUE, data |-> <<>>]

\* extract_structured_data (lines 50-67).  name_line and due_line are the
\* lines input() returns when it is called, now what datetime.now() returns.
\* The result is [ok |-> TRUE, data] or, for the ValueError of lines 60-61,
\* [ok |-> FALSE, error].
extract_structured_data(s, i, name_line, due_line, now) ==
    IF i = TASK_MANAGEMENT THEN
        [ok |-> TRUE, data |-> extract_task(s, name_line, due_line, now)]
    ELSE IF i = TASK_QUERY THEN
        Bind(date_range_match(s), LAMBDA m :
            IF m.ok THEN extract_range(m)
            ELSE [ok |-> TRUE,
                  data |-> [start_date |-> DateOf(now), end_date |-> NextDay(DateOf(now))]])
    ELSE IF i \in {PRODUCTIVITY, LOCATION_QUERY, GENERAL_QUERY, UNKNOWN} THEN
        [ok |-> TRUE, data |-> [query |-> s]]
    ELSE [ok |-> TRUE, data |-> <<>>]

\* bool(data.get(key)) for a key that holds text: present and not empty.
TruthyText(d, key) == key \in DOMAIN d /\ d[key] # ""

\* bool(data.get(key)) for a key that holds a datetime: present (every
\* datetime is true).
TruthyDate(d, key) == key \in DOMAIN d

(***************************************************************************)
(* Bounds and the inputs the environment can supply                        *)
(***************************************************************************)
\* The task store holds at most MaxTasks tasks.
MaxTasks == 2

\* The counter of Time Normalizer calls stops counting at MaxCorrections
\* (the loop itself goes on).
MaxCorrections == 3

\* Lines the operator types at the "You: " prompt.
UserInputs ==
    {"exit", "Exit",
     "add task buy milk on 2024-03-01",
     "add task on monday",
     "complete todo phone mom",
     "tasks from 2024-02-28 to 2024-03-02",
     "from monday to friday",
     "help me focus"}

\* Lines the operator types at the "Task name: " and "Due date?" prompts.
NameLines == {"", "call mom"}
DueLines  == {"2024-03-01 09:00"}

\* What datetime.now() can return.
NowSet == {[y |-> 2024, mo |-> 2, d |-> 29, H |-> 23, M |-> 30, S |-> 15]}

\* Texts the language model can answer with, per prompt.
ClassifyTexts ==
    {"TASK_MANAGEMENT: adds a task", " Task_Query\n", "PRODUCTIVITY", "location_query",
     "GENERAL_QUERY", "UNKNOWN: unclear", "", "not sure",
     "general_query, not task_management", "Productivity or TASK_QUERY"}

AdviceTexts ==
    {"Plan your day.\nACTION: Walk | TIME: 7:30 pm | DURATION: 10\nACTION: Plan | TIME: noon | DURATION: 5\n",
     "Just rest."}

CorrectionTexts == {" 12:00 PM\n", "midday", "around noon"}

AnswerTexts == {" Try the library. ", ""}

InsightTexts == {"You finish tasks early.", " \n"}

\* str(e) of the exception a failed ollama.generate call raises.
llm_error == "model backend unavailable"

\* A reply of the language model gateway: the text, or an exception.
LLMReplies(texts) ==
    {[ok |-> TRUE, text |-> t] : t \in texts} \cup {[ok |-> FALSE, text |-> llm_error]}

\* stderr of a failed `task add`.
store_stderr == "Could not write to the task database"

\* Outcomes of `task add` run with check=True: exit status 0 or not.
AddOutcomes == {"ok", "error"}

\* stdout of an export command: JSON, or text json.loads rejects.
ExportKinds == {"json", "garbage"}

\* What `task status:completed export` can print: the operator completes
\* tasks with the task tool itself, outside this program.
CompletedExports ==
    {[kind |-> "garbage", tasks |-> <<>>],
     [kind |-> "json", tasks |-> <<>>],
     [kind |-> "json", tasks |-> <<"{\"description\": \"file taxes\", \"status\": \"completed\"}">>]}

(***************************************************************************)
(* The handlers' texts                                                     *)
(***************************************************************************)
\* json.dumps(task) of an exported task
TaskJson(t) ==
    "{\"description\": \"" \o t.summary \o "\", \"due\": \"" \o FmtIso(t.due) \o "\"}"

RECURSIVE DumpAll(_)
\* [json.dumps(task) for task in tasks]
DumpAll(ts) == IF Len(ts) = 0 THEN <<>> ELSE <<TaskJson(Head(ts))>> \o DumpAll(Tail(ts))

\* Line 126
AddedText(d) == "Added task: " \o d.task_name \o " due on " \o FmtDateTime(d.due)

\* Line 131
TasksText(d, listed) ==
    "Your tasks from " \o FmtDate(d.start_date) \o " to " \o FmtDate(d.end_date) \o ":\n"
        \o JoinLines(DumpAll(listed))

\* Lines 176 and 180
ScheduledLine(action, due) ==
    "Added task: " \o Strip(action) \o " due at " \o FmtTime12(due)

FailedLine(action) == "Failed to add task: " \o Strip(action) \o " due to an error"

\* Line 182
ProductivityText(adv, lines) == adv \o "\n\n" \o JoinLines(lines)

\* Line 231
Disclaimer == "\n\nI've added these suggestions as tasks. You can modify or remove them as needed."

\* Line 235
InsightSuffix(insights) == "\n\nBased on your completed tasks, here's an insight: " \o insights

\* Line 239
ApologeticResponse(e) ==
    "I'm sorry, but I couldn't process your request: " \o e
        \o ". Could you please provide more details?"

\* Line 242
UnexpectedResponse(e) ==
    "I encountered an unexpected error: " \o e
        \o ". Please try again or contact support if the issue persists."

\* Lines 120, 97 and 212: the messages of the exceptions the code raises
MissingDataError == "Missing required data for adding task"

AddFailedError == "Failed to add task: " \o store_stderr

RECURSIVE UpperRange(_, _, _)
UpperRange(s, a, b) ==
    IF a > b THEN ""
    ELSE IF a = b
    THEN (IF CharAt(s, a) \in DOMAIN UpperOf THEN UpperOf[CharAt(s, a)] ELSE CharAt(s, a))
    ELSE UpperRange(s, a, (a + b) \div 2) \o UpperRange(s, ((a + b) \div 2) + 1, b)

\* The name of an Intent member is its value in capitals.
Upper(s) == UpperRange(s, 1, Len(s))

NoActionError(i) == "No action mapped for intent: Intent." \o Upper(i)

(***************************************************************************)
(* The dispatch table and the dispatcher                                   *)
(***************************************************************************)
\* A dispatch table with the LOCATION_QUERY entry left out: what the totality
\* property is measured against.
action_map_without_location ==
    (TASK_MANAGEMENT :> "add_task")
        @@ (TASK_QUERY :> "check_tasks")
        @@ (PRODUCTIVITY :> "handle_productivity")
        @@ (GENERAL_QUERY :> "handle_general_query")
        @@ (UNKNOWN :> "handle_general_query")

\* A dispatch table that sends TASK_MANAGEMENT to complete_task: what the
\* no-completion property is measured against.
action_map_completing ==
    (TASK_MANAGEMENT :> "complete_task")
        @@ (TASK_QUERY :> "check_tasks")
        @@ (PRODUCTIVITY :> "handle_productivity")
        @@ (LOCATION_QUERY :> "handle_location_query")
        @@ (GENERAL_QUERY :> "handle_general_query")
        @@ (UNKNOWN :> "handle_general_query")

\* action_map (lines 200-207)
action_map ==
    (TASK_MANAGEMENT :> "add_task")
        @@ (TASK_QUERY :> "check_tasks")
        @@ (PRODUCTIVITY :> "handle_productivity")
        @@ (LOCATION_QUERY :> "handle_location_query")
        @@ (GENERAL_QUERY :> "handle_general_query")
        @@ (UNKNOWN :> "handle_general_query")

\* The methods of ActionExecutor (lines 118-198)
Handlers ==
    {"add_task", "check_tasks", "complete_task", "handle_productivity",
     "handle_location_query", "handle_general_query"}

\* generate_api_call (lines 209-213): the deferred call, or the ValueError
\* of line 212.
generate_api_call(i, d) ==
    IF i \in DOMAIN action_map
    THEN [ok |-> TRUE, call |-> [handler |-> action_map[i], intent |-> i, data |-> d]]
    ELSE [ok |-> FALSE, error |-> NoActionError(i)]

\* An orchestrator without the remap of lines 224-225: what the remap
\* property is measured against.
RemapIntent_identity(i) == i

\* Lines 224-225
RemapIntent(i) == IF i = UNKNOWN THEN GENERAL_QUERY ELSE i

(***************************************************************************)
(* The task store, as the task tool keeps it: tasks in the order added.    *)
(***************************************************************************)
RECURSIVE DueBetween(_, _, _)
\* `task due.after:<start> due.before:<end> export` (line 80): the tasks due
\* after the start date and before the end date, in store order.
DueBetween(ts, start, end) ==
    IF Len(ts) = 0 THEN <<>>
    ELSE (IF /\ DateKey(DateOf(Head(ts).due)) >= DateKey(start)
             /\ DateKey(DateOf(Head(ts).due)) < DateKey(end)
             /\ ~(DateOf(Head(ts).due) = start /\ Head(ts).due.H = 0
                    /\ Head(ts).due.M = 0 /\ Head(ts).due.S = 0)
          THEN <<Head(ts)>> ELSE <<>>) \o DueBetween(Tail(ts), start, end)

(***************************************************************************)
(* State                                                                   *)
(***************************************************************************)
VARIABLES
    pc,               \* where the program is: the read loop, a step of process_request
    user_input,       \* the line read at line 283
    intent,           \* process_request's local `intent`
    classified,       \* what classify_intent returned (history: `intent` is reassigned)
    llm_text,         \* the model's answer to the classification prompt
    data,             \* structured_data
    api_call,         \* the deferred call generate_api_call returned
    result,           \* what the handler returned
    response,         \* what process_request returned
    outcome,          \* which return of process_request was taken, or "raised"
    exc,              \* the exception that left the try body of process_request, if any
    insights,         \* process_request's local `insights`
    fault_at,         \* the step at which the latest gateway fault or exception arose
    calls,            \* gateway calls made for this request, by kind
    tasks,            \* the task store: the pending tasks, in the order added
    advice,           \* handle_productivity: the model's advice
    actions,          \* handle_productivity: the parsed ACTION | TIME | DURATION triples
    idx,              \* handle_productivity: the triple the for loop is at
    time,             \* handle_productivity: the loop's `time`
    due_time,         \* handle_productivity: the parsed due_time
    scheduled_tasks,  \* handle_productivity: the outcome lines
    added,            \* per action index, whether its store add returned (history)
    completed_tasks   \* get_insights_from_completed_tasks: the fetched list

hpVars == <<advice, actions, idx, time, due_time, scheduled_tasks, added>>

vars ==
    <<pc, user_input, intent, classified, llm_text, data, api_call, result, response,
      outcome, exc, insights, fault_at, calls, tasks, advice, actions, idx, time, due_time,
      scheduled_tasks, added, completed_tasks>>

CallKinds ==
    {"llm_classify", "llm_advice", "llm_correct", "llm_answer", "llm_insight",
     "store_add", "store_list", "store_completed", "store_done", "prompt"}

NoCalls == [k \in CallKinds |-> 0]

\* No deferred call yet.
NoCall == [handler |-> None, intent |-> None, data |-> <<>>]

\* Exceptions: the class and str(e).
NoExc == [type |-> None, msg |-> None]

ValueError(msg) == [type |-> "ValueError", msg |-> msg]

RuntimeError(msg) == [type |-> "RuntimeError", msg |-> msg]

\* What a failed ollama.generate call raises: not a ValueError.
LLMError(msg) == [type |-> "Exception", msg |-> msg]

\* One more call of kind k (the Time Normalizer count stops at MaxCorrections).
Called(c, k) ==
    [c EXCEPT ![k] = IF k = "llm_correct" THEN Min(@ + 1, MaxCorrections) ELSE @ + 1]

Init ==
    /\ pc = "read"
    /\ user_input = None
    /\ intent = None
    /\ classified = None
    /\ llm_text = None
    /\ data = <<>>
    /\ api_call = NoCall
    /\ result = None
    /\ response = None
    /\ outcome = None
    /\ exc = NoExc
    /\ insights = None
    /\ fault_at = None
    /\ calls = NoCalls
    /\ tasks = <<>>
    /\ advice = None
    /\ actions = <<>>
    /\ idx = 0
    /\ time = None
    /\ due_time = None
    /\ scheduled_tasks = <<>>
    /\ added = <<>>
    /\ completed_tasks = <<>>

(***************************************************************************)
(* The returns of process_request                                          *)
(***************************************************************************)
\* Line 237: return response
ReturnSuccess(text) ==
    /\ response' = text
    /\ outcome' = "success"
    /\ pc' = "print"
    /\ UNCHANGED exc

\* A process_request with the `except Exception` clause alone: what the
\* error-translation property is measured against.
Except_generic(e) ==
    /\ exc' = e
    /\ response' = UnexpectedResponse(e.msg)
    /\ outcome' = "unexpected"
    /\ pc' = "print"

\* Lines 238-242: exception e leaves the try body; `except ValueError`
\* answers with the apology, `except Exception` with the generic message.
Except(e) ==
    /\ exc' = e
    /\ IF e.type = "ValueError"
       THEN /\ response' = ApologeticResponse(e.msg)
            /\ outcome' = "validation"
       ELSE /\ response' = UnexpectedResponse(e.msg)
            /\ outcome' = "unexpected"
    /\ pc' = "print"

\* Exception e leaves process_request: line 287 has no handler around it,
\* the interpreter prints the traceback and the program ends.
Propagate(e) ==
    /\ exc' = e
    /\ response' = None
    /\ outcome' = "raised"
    /\ pc' = "crashed"

(***************************************************************************)
(* The read loop (lines 282-288)                                           *)
(***************************************************************************)
\* Lines 283-286: read a line; `exit` in any case ends the loop, any other
\* line goes to process_request.
MainLoop_Read(line) ==
    /\ pc = "read"
    /\ user_input' = line
    /\ pc' = IF Lower(line) = "exit" THEN "exited" ELSE "classify"
    /\ UNCHANGED <<intent, classified, llm_text, data, api_call, result, response,
                   outcome, exc, insights, fault_at, calls, tasks, hpVars,
                   completed_tasks>>

\* Line 288: print the response; the locals of the finished request are gone.
MainLoop_Print ==
    /\ pc = "print"
    /\ pc' = "read"
    /\ user_input' = None
    /\ intent' = None
    /\ classified' = None
    /\ llm_text' = None
    /\ data' = <<>>
    /\ api_call' = NoCall
    /\ result' = None
    /\ response' = None
    /\ outcome' = None
    /\ exc' = NoExc
    /\ insights' = None
    /\ fault_at' = None
    /\ calls' = NoCalls
    /\ advice' = None
    /\ actions' = <<>>
    /\ idx' = 0
    /\ time' = None
    /\ due_time' = None
    /\ scheduled_tasks' = <<>>
    /\ added' = <<>>
    /\ completed_tasks' = <<>>
    /\ UNCHANGED tasks

(***************************************************************************)
(* process_request (lines 220-242)                                         *)
(***************************************************************************)
\* Line 221, outside the try: classify_intent makes one model call.
ProcessRequest_Classify(reply) ==
    /\ pc = "classify"
    /\ calls' = Called(calls, "llm_classify")
    /\ IF reply.ok
       THEN /\ intent' = classify_intent(reply.text)
            /\ classified' = intent'
            /\ llm_text' = reply.text
            /\ pc' = "extract"
            /\ UNCHANGED <<response, outcome, exc, fault_at>>
       ELSE /\ fault_at' = "classify"
            /\ Propagate(LLMError(reply.text))
            /\ UNCHANGED <<intent, classified, llm_text>>
    /\ UNCHANGED <<insights, user_input, data, api_call, result, tasks, hpVars,
                   completed_tasks>>

\* The input() calls extract_structured_data makes for this input and intent.
Prompts(s, i) ==
    (IF NeedsNamePrompt(s, i) THEN 1 ELSE 0) + (IF NeedsDuePrompt(s, i) THEN 1 ELSE 0)

\* Line 223
ProcessRequest_Extract(name_line, due_line, now) ==
    /\ pc = "extract"
    /\ \E e \in {extract_structured_data(user_input, intent, name_line, due_line, now)} :
           IF e.ok
           THEN /\ data' = e.data
                /\ pc' = "remap"
                /\ UNCHANGED <<response, outcome, exc, fault_at>>
           ELSE /\ fault_at' = "extract"
                /\ Except(ValueError(e.error))
                /\ UNCHANGED data
    /\ calls' = [calls EXCEPT !["prompt"] = @ + Prompts(user_input, intent)]
    /\ UNCHANGED <<user_input, intent, classified, llm_text, api_call, result, insights,
                   tasks, hpVars, completed_tasks>>

\* Lines 224-225
ProcessRequest_Remap ==
    /\ pc = "remap"
    /\ intent' = RemapIntent(intent)
    /\ pc' = "dispatch"
    /\ UNCHANGED <<user_input, classified, llm_text, data, api_call, result, response,
                   outcome, exc, insights, fault_at, calls, tasks, hpVars,
                   completed_tasks>>

\* A dispatcher that is not deferred, listing the store while it binds: what
\* the deferred-binding property is measured against.
ProcessRequest_Dispatch_eager ==
    /\ pc = "dispatch"
    /\ \E g \in {generate_api_call(intent, data)} :
           /\ g.ok
           /\ api_call' = g.call
           /\ pc' = "execute"
    /\ calls' = Called(calls, "store_list")
    /\ UNCHANGED <<response, outcome, exc, fault_at, insights, user_input, intent,
                   classified, llm_text, data, result, tasks, hpVars, completed_tasks>>

\* Line 226
ProcessRequest_Dispatch ==
    /\ pc = "dispatch"
    /\ \E g \in {generate_api_call(intent, data)} :
           IF g.ok
           THEN /\ api_call' = g.call
                /\ pc' = "execute"
                /\ UNCHANGED <<response, outcome, exc, fault_at>>
           ELSE /\ fault_at' = "dispatch"
                /\ Except(ValueError(g.error))
                /\ UNCHANGED api_call
    /\ UNCHANGED <<insights, user_input, intent, classified, llm_text, data, result,
                   calls, tasks, hpVars, completed_tasks>>

(***************************************************************************)
(* Line 227: api_call() runs the bound handler.                            *)
(***************************************************************************)
Running(h) == pc = "execute" /\ api_call.handler = h

\* The handler returned: process_request goes on to line 229.
HandlerReturns(text) ==
    /\ result' = text
    /\ pc' = "enrich"
    /\ UNCHANGED <<response, outcome, exc>>

\* TaskWarriorIntegration.add_task (lines 89-97) can add the task: the store
\* has room for it.
StoreHasRoom == Len(tasks) < MaxTasks

\* An add_task over a store gateway without check=True, which does not see
\* the failure of the add command: what the no-false-confirmation property
\* is measured against.
ActionExecutor_add_task_unchecked(out) ==
    /\ Running("add_task")
    /\ \E d \in {api_call.data} :
           IF ~(TruthyText(d, "task_name") /\ TruthyDate(d, "due"))
           THEN /\ fault_at' = "handler"
                /\ Except(ValueError(MissingDataError))
                /\ UNCHANGED <<result, tasks, calls>>
           ELSE /\ calls' = Called(calls, "store_add")
                /\ out = "ok" => StoreHasRoom
                /\ tasks' = IF out = "ok"
                            THEN Append(tasks, [summary |-> d.task_name, due |-> d.due])
                            ELSE tasks
                /\ HandlerReturns(AddedText(d))
                /\ UNCHANGED fault_at
    /\ UNCHANGED <<insights, user_input, intent, classified, llm_text, data, api_call, hpVars,
                   completed_tasks>>

\* ActionExecutor.add_task (lines 118-126)
ActionExecutor_add_task(out) ==
    /\ Running("add_task")
    /\ \E d \in {api_call.data} :
           IF ~(TruthyText(d, "task_name") /\ TruthyDate(d, "due"))
           THEN /\ fault_at' = "handler"
                /\ Except(ValueError(MissingDataError))
                /\ UNCHANGED <<result, tasks, calls>>
           ELSE /\ calls' = Called(calls, "store_add")
                /\ IF out = "ok"
                   THEN /\ StoreHasRoom
                        /\ tasks' = Append(tasks, [summary |-> d.task_name, due |-> d.due])
                        /\ HandlerReturns(AddedText(d))
                        /\ UNCHANGED fault_at
                   ELSE /\ fault_at' = "handler"
                        /\ Except(RuntimeError(AddFailedError))
                        /\ UNCHANGED <<result, tasks>>
    /\ UNCHANGED <<insights, user_input, intent, classified, llm_text, data, api_call, hpVars,
                   completed_tasks>>

\* A check_tasks that drops the listing and returns the header alone: what
\* the round-trip property is measured against.
ActionExecutor_check_tasks_header(kind) ==
    /\ Running("check_tasks")
    /\ \E d \in {api_call.data} : HandlerReturns(TasksText(d, <<>>))
    /\ calls' = Called(calls, "store_list")
    /\ fault_at' = IF kind = "json" THEN fault_at ELSE "handler"
    /\ UNCHANGED <<insights, user_input, intent, classified, llm_text, data, api_call,
                   tasks, hpVars, completed_tasks>>

\* A check_tasks over a get_tasks that lets the decoding error escape: what
\* the empty-listing property is measured against.
ActionExecutor_check_tasks_strict(kind) ==
    /\ Running("check_tasks")
    /\ \E d \in {api_call.data} :
           IF kind = "json"
           THEN /\ HandlerReturns(TasksText(d, DueBetween(tasks, d.start_date, d.end_date)))
                /\ UNCHANGED fault_at
           ELSE /\ fault_at' = "handler"
                /\ Except(ValueError("Expecting value: line 1 column 1 (char 0)"))
                /\ UNCHANGED result
    /\ calls' = Called(calls, "store_list")
    /\ UNCHANGED <<insights, user_input, intent, classified, llm_text, data, api_call,
                   tasks, hpVars, completed_tasks>>

\* ActionExecutor.check_tasks (lines 128-131) over get_tasks (lines 79-87)
ActionExecutor_check_tasks(kind) ==
    /\ Running("check_tasks")
    /\ \E d \in {api_call.data} :
           HandlerReturns(TasksText(d, IF kind = "json"
                                       THEN DueBetween(tasks, d.start_date, d.end_date)
                                       ELSE <<>>))
    /\ calls' = Called(calls, "store_list")
    /\ fault_at' = IF kind = "json" THEN fault_at ELSE "handler"
    /\ UNCHANGED <<insights, user_input, intent, classified, llm_text, data, api_call,
                   tasks, hpVars, completed_tasks>>

\* A gateway that takes any output of the store as the confirmation: what
\* the complete_task property is measured against.
TaskWarriorIntegration_complete_task_any(stdout) == stdout # ""

\* TaskWarriorIntegration.complete_task (lines 99-102): the confirmation is
\* the phrase "Completed task" somewhere in the output of `task <id> done`.
TaskWarriorIntegration_complete_task(stdout) == Contains(stdout, "Completed task")

\* ActionExecutor.complete_task (lines 133-138) over
\* TaskWarriorIntegration.complete_task (lines 99-102).  action_map has no
\* entry for it, so no deferred call runs it and it is no step of Next.
ActionExecutor_complete_task(confirmed) ==
    /\ Running("complete_task")
    /\ \E d \in {api_call.data} :
           IF ~TruthyText(d, "task_name")
           THEN /\ fault_at' = "handler"
                /\ Except(ValueError("Missing task name for completing task"))
                /\ UNCHANGED <<result, calls>>
           ELSE /\ calls' = Called(calls, "store_done")
                /\ HandlerReturns(IF confirmed
                                  THEN "Completed task: " \o d.task_name
                                  ELSE "Failed to complete task: " \o d.task_name
                                           \o ". Task not found.")
                /\ UNCHANGED fault_at
    /\ UNCHANGED <<insights, user_input, intent, classified, llm_text, data, api_call,
                   tasks, hpVars, completed_tasks>>

\* handle_location_query (lines 184-190) and handle_general_query (192-198):
\* one model call, the trimmed answer returned.
ActionExecutor_handle_query(reply) ==
    /\ Running("handle_location_query") \/ Running("handle_general_query")
    /\ calls' = Called(calls, "llm_answer")
    /\ IF reply.ok
       THEN /\ HandlerReturns(Strip(reply.text))
            /\ UNCHANGED fault_at
       ELSE /\ fault_at' = "handler"
            /\ Except(LLMError(reply.text))
            /\ UNCHANGED result
    /\ UNCHANGED <<insights, user_input, intent, classified, llm_text, data, api_call,
                   tasks, hpVars, completed_tasks>>

(***************************************************************************)
(* handle_productivity (lines 140-182)                                     *)
(***************************************************************************)
\* Lines 141-158: one model call for the advice, then the triples are
\* parsed out of it.  With no triple the for loop is skipped and line 182
\* returns.
ActionExecutor_handle_productivity(reply) ==
    /\ Running("handle_productivity")
    /\ calls' = Called(calls, "llm_advice")
    /\ IF reply.ok
       THEN \E adv \in {Strip(reply.text)} : \E acts \in {findall_actions(adv, 1)} :
                /\ advice' = adv
                /\ actions' = acts
                /\ scheduled_tasks' = <<>>
                /\ added' = <<>>
                /\ due_time' = None
                /\ IF Len(acts) = 0
                   THEN /\ HandlerReturns(ProductivityText(adv, <<>>))
                        /\ UNCHANGED <<idx, time>>
                   ELSE /\ idx' = 1
                        /\ time' = acts[1].time
                        /\ pc' = "hp_time"
                        /\ UNCHANGED <<result, response, outcome, exc>>
                /\ UNCHANGED fault_at
       ELSE /\ fault_at' = "handler"
            /\ Except(LLMError(reply.text))
            /\ UNCHANGED <<result, hpVars>>
    /\ UNCHANGED <<insights, user_input, intent, classified, llm_text, data, api_call, tasks,
                   completed_tasks>>

\* A Time Normalizer that hands the model's reply back untrimmed: what the
\* parse-before-submit property is measured against.
correct_time_format_raw(llm_reply_text) == llm_reply_text

\* correct_time_format (lines 69-76) on the model's reply: the trimmed text.
correct_time_format(llm_reply_text) == Strip(llm_reply_text)

\* Lines 160-167, one pass of `while True`: the time parses and the loop is
\* left with due_time, or it does not and the Time Normalizer's answer
\* becomes `time` for the next pass.  An exception of the model call is not a
\* ValueError: it leaves the handler and reaches line 240.
HandleProductivity_TimeLoop(now, reply) ==
    /\ pc = "hp_time"
    /\ \E parsed \in {strptime_time(Strip(time))} :
           IF parsed.ok
           THEN /\ due_time' = Combine(DateOf(now), parsed.tm)
                /\ pc' = "hp_submit"
                /\ UNCHANGED <<time, calls, fault_at, response, outcome, exc>>
           ELSE /\ calls' = Called(calls, "llm_correct")
                /\ IF reply.ok
                   THEN /\ time' = correct_time_format(reply.text)
                        /\ UNCHANGED <<pc, fault_at, response, outcome, exc>>
                   ELSE /\ fault_at' = "handler"
                        /\ Except(LLMError(reply.text))
                        /\ UNCHANGED time
                /\ UNCHANGED due_time
    /\ UNCHANGED <<insights, user_input, intent, classified, llm_text, data, api_call,
                   result, tasks, advice, actions, idx, scheduled_tasks, added,
                   completed_tasks>>

\* A handle_productivity whose first store failure ends the batch with the
\* lines gathered so far: what the per-action property is measured against.
HandleProductivity_Submit_abort(out) ==
    /\ pc = "hp_submit"
    /\ calls' = Called(calls, "store_add")
    /\ IF out = "ok"
       THEN /\ StoreHasRoom
            /\ tasks' = Append(tasks, [summary |-> Strip(actions[idx].action),
                                       due |-> due_time])
            /\ scheduled_tasks' =
                   Append(scheduled_tasks, ScheduledLine(actions[idx].action, due_time))
            /\ added' = Append(added, TRUE)
            /\ UNCHANGED fault_at
            /\ IF idx < Len(actions)
               THEN /\ idx' = idx + 1
                    /\ time' = actions[idx + 1].time
                    /\ pc' = "hp_time"
                    /\ UNCHANGED <<result, response, outcome, exc>>
               ELSE /\ HandlerReturns(ProductivityText(advice, scheduled_tasks'))
                    /\ UNCHANGED <<idx, time>>
       ELSE /\ fault_at' = "handler"
            /\ HandlerReturns(ProductivityText(advice, scheduled_tasks))
            /\ UNCHANGED <<tasks, scheduled_tasks, added, idx, time>>
    /\ UNCHANGED <<insights, user_input, intent, classified, llm_text, data, api_call, advice,
                   actions, due_time, completed_tasks>>

\* Lines 169-180 for the action at idx, then the next triple or line 182.
HandleProductivity_Submit(out) ==
    /\ pc = "hp_submit"
    /\ calls' = Called(calls, "store_add")
    /\ \E action \in {actions[idx].action} :
       \E lines \in {Append(scheduled_tasks,
                            IF out = "ok" THEN ScheduledLine(action, due_time)
                            ELSE FailedLine(action))} :
           /\ IF out = "ok"
              THEN /\ StoreHasRoom
                   /\ tasks' = Append(tasks, [summary |-> Strip(action), due |-> due_time])
                   /\ UNCHANGED fault_at
              ELSE /\ fault_at' = "handler"
                   /\ UNCHANGED tasks
           /\ scheduled_tasks' = lines
           /\ added' = Append(added, out = "ok")
           /\ IF idx < Len(actions)
              THEN /\ idx' = idx + 1
                   /\ time' = actions[idx + 1].time
                   /\ pc' = "hp_time"
                   /\ UNCHANGED <<result, response, outcome, exc>>
              ELSE /\ HandlerReturns(ProductivityText(advice, lines))
                   /\ UNCHANGED <<idx, time>>
    /\ UNCHANGED <<insights, user_input, intent, classified, llm_text, data, api_call, advice,
                   actions, due_time, completed_tasks>>

(***************************************************************************)
(* Enrichment (lines 229-237) and get_insights_from_completed_tasks        *)
(* (lines 244-258)                                                         *)
(***************************************************************************)
\* get_completed_tasks (lines 104-112): the exported list, empty when the
\* output is not JSON.
get_completed_tasks(export) == IF export.kind = "json" THEN export.tasks ELSE <<>>

\* An enrichment that skips the fetch for LOCATION_QUERY alone: what the
\* store-frame property is measured against.
ProcessRequest_Enrich_general(export) ==
    /\ pc = "enrich"
    /\ IF intent = PRODUCTIVITY
       THEN /\ ReturnSuccess(result \o Disclaimer)
            /\ UNCHANGED <<insights, calls, fault_at, completed_tasks>>
       ELSE IF intent # LOCATION_QUERY
       THEN /\ calls' = Called(calls, "store_completed")
            /\ completed_tasks' = get_completed_tasks(export)
            /\ fault_at' = IF export.kind = "json" THEN fault_at ELSE "enrich_fetch"
            /\ IF Len(get_completed_tasks(export)) = 0
               THEN /\ insights' = ""
                    /\ ReturnSuccess(result)
               ELSE /\ pc' = "insight"
                    /\ UNCHANGED <<insights, response, outcome, exc>>
       ELSE /\ ReturnSuccess(result)
            /\ UNCHANGED <<insights, calls, fault_at, completed_tasks>>
    /\ UNCHANGED <<user_input, intent, classified, llm_text, data, api_call, result, tasks,
                   hpVars>>

\* Lines 229-237 up to the insight model call: the disclaimer, or the fetch
\* of the completed tasks (an empty list returns "" at line 247), or nothing.
ProcessRequest_Enrich(export) ==
    /\ pc = "enrich"
    /\ IF intent = PRODUCTIVITY
       THEN /\ ReturnSuccess(result \o Disclaimer)
            /\ UNCHANGED <<insights, calls, fault_at, completed_tasks>>
       ELSE IF intent \notin {GENERAL_QUERY, LOCATION_QUERY}
       THEN /\ calls' = Called(calls, "store_completed")
            /\ completed_tasks' = get_completed_tasks(export)
            /\ fault_at' = IF export.kind = "json" THEN fault_at ELSE "enrich_fetch"
            /\ IF Len(get_completed_tasks(export)) = 0
               THEN /\ insights' = ""
                    /\ ReturnSuccess(result)
               ELSE /\ pc' = "insight"
                    /\ UNCHANGED <<insights, response, outcome, exc>>
       ELSE /\ ReturnSuccess(result)
            /\ UNCHANGED <<insights, calls, fault_at, completed_tasks>>
    /\ UNCHANGED <<user_input, intent, classified, llm_text, data, api_call, result, tasks,
                   hpVars>>

\* A process_request without the `if insights:` test of line 234: what the
\* enrichment property is measured against.
ProcessRequest_Insight_always(reply) ==
    /\ pc = "insight"
    /\ calls' = Called(calls, "llm_insight")
    /\ IF reply.ok
       THEN /\ insights' = Strip(reply.text)
            /\ ReturnSuccess(result \o InsightSuffix(Strip(reply.text)))
            /\ UNCHANGED fault_at
       ELSE /\ fault_at' = "insight"
            /\ Except(LLMError(reply.text))
            /\ UNCHANGED insights
    /\ UNCHANGED <<user_input, intent, classified, llm_text, data, api_call, result, tasks,
                   hpVars, completed_tasks>>

\* Lines 249-258 and 234-237: the insight model call; its trimmed answer is
\* appended when it is not empty.  An exception of the call reaches line 240.
ProcessRequest_Insight(reply) ==
    /\ pc = "insight"
    /\ calls' = Called(calls, "llm_insight")
    /\ IF reply.ok
       THEN /\ insights' = Strip(reply.text)
            /\ ReturnSuccess(IF Strip(reply.text) # ""
                             THEN result \o InsightSuffix(Strip(reply.text))
                             ELSE result)
            /\ UNCHANGED fault_at
       ELSE /\ fault_at' = "insight"
            /\ Except(LLMError(reply.text))
            /\ UNCHANGED insights
    /\ UNCHANGED <<user_input, intent, classified, llm_text, data, api_call, result, tasks,
                   hpVars, completed_tasks>>

(***************************************************************************)
(* The program                                                             *)
(***************************************************************************)
Next ==
    \/ \E line \in UserInputs : MainLoop_Read(line)
    \/ MainLoop_Print
    \/ \E reply \in LLMReplies(ClassifyTexts) : ProcessRequest_Classify(reply)
    \/ \E name_line \in NameLines, due_line \in DueLines, now \in NowSet :
           ProcessRequest_Extract(name_line, due_line, now)
    \/ ProcessRequest_Remap
    \/ ProcessRequest_Dispatch
    \/ \E out \in AddOutcomes : ActionExecutor_add_task(out)
    \/ \E kind \in ExportKinds : ActionExecutor_check_tasks(kind)
    \/ \E reply \in LLMReplies(AnswerTexts) : ActionExecutor_handle_query(reply)
    \/ \E reply \in LLMReplies(AdviceTexts) : ActionExecutor_handle_productivity(reply)
    \/ \E now \in NowSet, reply \in LLMReplies(CorrectionTexts) :
           HandleProductivity_TimeLoop(now, reply)
    \/ \E out \in AddOutcomes : HandleProductivity_Submit(out)
    \/ \E export \in CompletedExports : ProcessRequest_Enrich(export)
    \/ \E reply \in LLMReplies(InsightTexts) : ProcessRequest_Insight(reply)

Spec == Init /\ [][Next]_vars

\* The program is one thread that always takes its next step: a gateway
\* call returns or raises, the console delivers a line.
FairSpec == Spec /\ WF_vars(Next)

(***************************************************************************)
(* ActionExecutor.complete_task called on its own.  process_request never  *)
(* binds it, so its contract is checked under a caller that binds the      *)
(* method to a data dictionary and runs the deferred call.                 *)
(***************************************************************************)
\* The caller makes at most MaxCompletions store calls.
MaxCompletions == 4

\* The dictionaries handed to complete_task: identifier present, empty, or
\* missing.
CompleteData ==
    {[task_name |-> "1"], [task_name |-> "phone mom"], [task_name |-> ""],
     [task_name |-> "2"], [task_name |-> "buy milk"],
     [query |-> "complete todo phone mom"],
     [due |-> [y |-> 2024, mo |-> 3, d |-> 1, H |-> 9, M |-> 0, S |-> 0]],
     [task_name |-> "7", due |-> [y |-> 2024, mo |-> 3, d |-> 1, H |-> 9, M |-> 0, S |-> 0]]}

\* What `task <id> done` can print.
DoneOutputs ==
    {"Completed task 1 'phone mom'.\nCompleted 1 task.\n",
     "No matches.\n",
     "completed task 1",
     "Task 7 'file taxes' is neither pending nor waiting.\n",
     ""}

\* lambda: self.action_executor.complete_task(data), bound by the caller
Direct_Bind(d) ==
    /\ pc = "read"
    /\ calls.store_done < MaxCompletions
    /\ pc' = "execute"
    /\ data' = d
    /\ api_call' = [handler |-> "complete_task", intent |-> None, data |-> d]
    /\ result' = None
    /\ response' = None
    /\ outcome' = None
    /\ exc' = NoExc
    /\ fault_at' = None
    /\ UNCHANGED <<insights, user_input, intent, classified, llm_text, calls, tasks,
                   hpVars, completed_tasks>>

\* The deferred call runs the handler over one output of the store.
Direct_complete_task(stdout) ==
    ActionExecutor_complete_task(TaskWarriorIntegration_complete_task(stdout))

\* The caller has the handler's text or its exception and goes on.
Direct_Return ==
    /\ pc \in {"enrich", "print"}
    /\ api_call.handler = "complete_task"
    /\ pc' = "read"
    /\ UNCHANGED <<user_input, intent, classified, llm_text, data, api_call, result,
                   response, outcome, exc, insights, fault_at, calls, tasks, hpVars,
                   completed_tasks>>

DirectNext ==
    \/ \E d \in CompleteData : Direct_Bind(d)
    \/ \E stdout \in DoneOutputs : Direct_complete_task(stdout)
    \/ Direct_Return

DirectSpec == Init /\ [][DirectNext]_vars

(***************************************************************************)
(* Properties                                                              *)
(***************************************************************************)
\* The request is inside the Time Normalizer loop of lines 160-167.
InTimeLoop == pc = "hp_time"

\* C1: the Time Normalizer retry loop of handle_productivity terminates:
\* whenever the handler is in the loop it eventually leaves it (the time
\* parsed, or the handler gave up), even when every correction the model
\* returns fails to parse.
C1_RetryLoopTerminates == InTimeLoop ~> ~InTimeLoop

\* C2: process_request never propagates a raw fault: whatever step fails,
\* the call ends by returning a response string in one of the three terminal
\* outcomes success, validation failure, unexpected error.
C2_NoRawFault ==
    /\ outcome # "raised"
    /\ pc # "crashed"
    /\ pc = "print" =>
           (outcome \in {"success", "validation", "unexpected"} /\ response # None)

\* C3: when the handler of a TASK_MANAGEMENT or TASK_QUERY request has
\* returned and the completed-task fetch or the insight model call then
\* fails, process_request still returns the success response carrying the
\* handler's result, without an insight.
C3_InsightFailureAbsorbed ==
    (/\ pc = "print"
     /\ result # None
     /\ api_call.intent \in {TASK_MANAGEMENT, TASK_QUERY}
     /\ fault_at \in {"enrich_fetch", "insight"})
        => (outcome = "success" /\ response = result)

\* C4: no error while processing a request ends the interactive loop: the
\* loop has ended only if the line last read is the exit command.
C4_LoopEndsOnlyOnExit ==
    pc \in {"exited", "crashed"} => (user_input # None /\ Lower(user_input) = "exit")

\* add_task was called with task_name or due missing or empty.
AddTaskValidationFailure ==
    /\ api_call.handler = "add_task"
    /\ ~(TruthyText(api_call.data, "task_name") /\ TruthyDate(api_call.data, "due"))

\* C5 as stated: the add_task validation failure is raised before any store
\* call and answered with the apology carrying its text; every other exception
\* of a request is answered with the generic unexpected-error response, never
\* with the apology.
C5_OnlyValidationApologises ==
    (pc = "print" /\ exc # NoExc) =>
        IF AddTaskValidationFailure
        THEN /\ outcome = "validation"
             /\ response = ApologeticResponse(MissingDataError)
             /\ calls.store_add = 0
        ELSE /\ outcome = "unexpected"
             /\ response = UnexpectedResponse(exc.msg)

\* C5, amended: the add_task validation failure is raised before any store
\* call and is a ValueError; every ValueError that leaves the try body of
\* process_request (the validation failure, and the one strptime raises at
\* lines 60-61 for a malformed date of a range) is answered with the apology
\* carrying its text; every other exception that leaves the try body (a
\* failed store add, a failed model call) is answered with the generic
\* unexpected-error response carrying its text, never with the apology.
C5_ErrorTranslation ==
    pc = "print" =>
        /\ AddTaskValidationFailure =>
               /\ exc = ValueError(MissingDataError)
               /\ fault_at = "handler"
               /\ calls.store_add = 0
               /\ result = None
        /\ exc.type = "ValueError" =>
               /\ outcome = "validation"
               /\ response = ApologeticResponse(exc.msg)
        /\ exc.type \notin {None, "ValueError"} =>
               /\ outcome = "unexpected"
               /\ response = UnexpectedResponse(exc.msg)
        /\ exc = NoExc <=> outcome = "success"
        /\ (api_call.handler = "add_task" /\ calls.store_add = 1 /\ result = None) =>
               /\ exc = RuntimeError(AddFailedError)
               /\ response = UnexpectedResponse(AddFailedError)

\* A request answered with the apology for an add_task validation failure,
\* the store untouched.
C5_Witness ==
    /\ pc = "print"
    /\ AddTaskValidationFailure
    /\ exc = ValueError(MissingDataError)
    /\ response = ApologeticResponse(MissingDataError)
    /\ calls.store_add = 0

\* handle_productivity is running or has returned for this request.
InProductivity == api_call.handler = "handle_productivity"

\* Outcome line k reports the submission of action k: the success line names
\* the action and a due time, the failure line names the action.
OwnOutcomeLine(k) ==
    IF added[k]
    THEN \E prefix \in {"Added task: " \o Strip(actions[k].action) \o " due at "} :
             /\ Len(scheduled_tasks[k]) > Len(prefix)
             /\ SubSeq(scheduled_tasks[k], 1, Len(prefix)) = prefix
    ELSE scheduled_tasks[k] = FailedLine(actions[k].action)

\* C6: in handle_productivity each parsed ACTION | TIME | DURATION entry
\* yields exactly one outcome line, in order, reporting the success or the
\* failure of its own submission; a store failure is caught (it is never the
\* request's exception), does not end the batch, and a line once written is
\* neither dropped nor changed by a later action.
C6_OneOutcomeLinePerAction ==
    /\ [](/\ Len(scheduled_tasks) = Len(added)
          /\ Len(scheduled_tasks) <= Len(actions)
          /\ pc \in {"hp_time", "hp_submit"} => Len(scheduled_tasks) = idx - 1
          /\ \A k \in 1..Len(scheduled_tasks) : OwnOutcomeLine(k)
          /\ (InProductivity /\ result # None) =>
                 /\ Len(scheduled_tasks) = Len(actions)
                 /\ result = ProductivityText(advice, scheduled_tasks)
          /\ (InProductivity /\ exc # NoExc) => exc.type = "Exception")
    /\ [][pc # "print" =>
              /\ Len(scheduled_tasks') >= Len(scheduled_tasks)
              /\ \A k \in 1..Len(scheduled_tasks) :
                     scheduled_tasks'[k] = scheduled_tasks[k]]_vars

\* A batch of two actions returned with the first submission failed and the
\* second one added: two lines.
C6_Witness ==
    /\ pc = "enrich"
    /\ InProductivity
    /\ added = <<FALSE, TRUE>>
    /\ Len(scheduled_tasks) = 2
    /\ scheduled_tasks[1] = FailedLine(actions[1].action)

\* The handler returned and process_request returned its response.
EnrichedReturn == pc = "print" /\ outcome = "success"

C8_DispatchTotal ==
    /\ Cardinality(Intents) = 6
    /\ \A i \in Intents :
           /\ generate_api_call(i, data).ok
           /\ Cardinality({h \in Handlers : generate_api_call(i, data).ok
                               /\ generate_api_call(i, data).call.handler = h}) = 1
    /\ fault_at # "dispatch"
    /\ pc \in {"execute", "enrich"} => api_call.handler \in Handlers

\* A location query dispatched to its handler.
C8_Witness ==
    /\ pc = "execute"
    /\ intent = LOCATION_QUERY
    /\ api_call.handler = "handle_location_query"

\* The tag occurs somewhere in the text.
TagOccurs(tag, text) ==
    \E p \in 1..Len(text) :
        /\ p + Len(tag) - 1 <= Len(text)
        /\ SubSeq(text, p, p + Len(tag) - 1) = tag

\* C9: a model response containing no intent tag is classified as UNKNOWN,
\* and UNKNOWN is remapped to GENERAL_QUERY before dispatch: the dispatcher
\* is never invoked with intent UNKNOWN.
C9_UnknownRemapped ==
    /\ (llm_text # None /\ \A k \in 1..Len(Intent) : ~TagOccurs(Intent[k], Lower(llm_text)))
           => classified = UNKNOWN
    /\ pc = "dispatch" => intent # UNKNOWN
    /\ api_call.intent # UNKNOWN
    /\ (classified = UNKNOWN /\ pc \in {"dispatch", "execute"}) => intent = GENERAL_QUERY
    /\ (classified = UNKNOWN /\ api_call # NoCall) =>
           /\ api_call.intent = GENERAL_QUERY
           /\ api_call.handler = "handle_general_query"

\* A response without any tag, classified UNKNOWN and dispatched as a
\* general query.
C9_Witness ==
    /\ pc = "execute"
    /\ llm_text = "not sure"
    /\ classified = UNKNOWN
    /\ api_call.intent = GENERAL_QUERY
    /\ api_call.handler = "handle_general_query"

\* C10: classify_intent returns the first Intent in declaration order whose
\* tag occurs in the lower-cased response, UNKNOWN when none occurs (an empty
\* response included), and makes exactly one model call per request.
C10_FirstTagInOrder ==
    /\ llm_text # None =>
           \E hits \in {{k \in 1..Len(Intent) : TagOccurs(Intent[k], Lower(llm_text))}} :
               IF hits = {}
               THEN classified = UNKNOWN
               ELSE \E k \in hits : /\ \A j \in hits : k <= j
                                    /\ classified = Intent[k]
    /\ Intent = <<TASK_MANAGEMENT, TASK_QUERY, PRODUCTIVITY, LOCATION_QUERY,
                  GENERAL_QUERY, UNKNOWN>>
    /\ calls.llm_classify = (IF pc \in {"read", "classify", "exited"} THEN 0 ELSE 1)

\* A response naming two tags, the later-declared one first in the text: the
\* earlier-declared one is returned.
C10_Witness ==
    /\ llm_text = "general_query, not task_management"
    /\ classified = TASK_MANAGEMENT
    /\ calls.llm_classify = 1

\* check_tasks has just returned: fault_at still tells whether the store's
\* listing failed to parse (line 86).
CheckTasksReturned ==
    pc = "enrich" /\ api_call.handler = "check_tasks" /\ result # None

\* The due timestamp of task t lies in the range [start_date, end_date) of d.
DueInRange(t, d) ==
    /\ DateKey(d.start_date) <= DateKey(DateOf(t.due))
    /\ DateKey(DateOf(t.due)) < DateKey(d.end_date)

\* The response text holds the exported record of task t.
Lists(text, t) == TagOccurs(TaskJson(t), text)

ListingEmpty ==
    \/ fault_at = "handler"
    \/ DueBetween(tasks, api_call.data.start_date, api_call.data.end_date) = <<>>

\* C12: check_tasks never fails: its step always returns to process_request
\* with no exception raised.  On an empty or unparsable store listing its
\* text is the header with the requested date range and no task line.
C12_EmptyListingIsNoError ==
    /\ [][Running("check_tasks") =>
              pc' = "enrich" /\ result' # None /\ exc' = NoExc /\ outcome' = None]_vars
    /\ [](CheckTasksReturned /\ ListingEmpty =>
              /\ result = "Your tasks from " \o FmtDate(api_call.data.start_date)
                              \o " to " \o FmtDate(api_call.data.end_date) \o ":\n"
              /\ ~TagOccurs("description", result))

\* check_tasks returned the header alone after a listing that did not parse,
\* with a task in the store.
C12_Witness ==
    /\ CheckTasksReturned
    /\ fault_at = "handler"
    /\ Len(tasks) >= 1
    /\ result = "Your tasks from 2024-02-28 to 2024-03-02:\n"

\* C13: complete_task raises the validation error, before any store call,
\* exactly when the task identifier is missing or empty.  Otherwise it makes
\* one store call and returns a text, never an exception: the success text
\* when the store's output holds the phrase "Completed task", the failure
\* text whenever the output lacks it.
C13_CompleteTaskContract ==
    [][\A stdout \in DoneOutputs :
           Direct_complete_task(stdout) =>
               IF "task_name" \in DOMAIN api_call.data /\ api_call.data.task_name # ""
               THEN /\ exc' = NoExc
                    /\ calls'.store_done = calls.store_done + 1
                    /\ result' = IF TagOccurs("Completed task", stdout)
                                 THEN "Completed task: " \o api_call.data.task_name
                                 ELSE "Failed to complete task: "
                                          \o api_call.data.task_name
                                          \o ". Task not found."
               ELSE /\ exc' = ValueError("Missing task name for completing task")
                    /\ calls'.store_done = calls.store_done
                    /\ result' = None]_vars

\* complete_task has returned the failure text for task "phone mom" after
\* the caller's second store call.
C13_Witness ==
    /\ pc = "enrich"
    /\ api_call.handler = "complete_task"
    /\ result = "Failed to complete task: phone mom. Task not found."
    /\ calls.store_done = 2
    /\ exc = NoExc

\* The bound handler has been started for this request.
HandlerStarted == pc \in {"execute", "hp_time", "hp_submit", "enrich", "insight"}

\* The model and store calls the handlers and the enrichment make.
HandlerCalls(c) ==
    c.llm_advice + c.llm_correct + c.llm_answer + c.store_add + c.store_list + c.store_done

EnrichCalls(c) == c.store_completed + c.llm_insight

\* C14 as stated: every request creates exactly one action binding, so every
\* request that process_request has answered has one.
C14_BindingEveryRequest == pc = "print" => api_call # NoCall

\* C14, amended: a request creates at most one action binding, and exactly
\* one once classification, extraction and the UNKNOWN remap have completed;
\* a request that ends in classification or extraction creates none.  The
\* binding is made at line 226 for the remapped intent and the extracted
\* data, with no model or store call; the handler is entered once, only from
\* that binding; enrichment calls are made only after the handler returned.
C14_DeferredBinding ==
    /\ [][api_call' # api_call =>
              \/ /\ pc = "dispatch" /\ pc' = "execute"
                 /\ api_call = NoCall
                 /\ calls' = calls /\ tasks' = tasks
              \/ pc = "print" /\ api_call' = NoCall]_vars
    /\ [][pc' = "execute" => pc = "dispatch"]_vars
    /\ [][pc = "execute" => pc' # "execute"]_vars
    /\ [](HandlerStarted =>
              /\ calls.llm_classify = 1
              /\ classified \in Intents
              /\ intent = (IF classified = UNKNOWN THEN GENERAL_QUERY ELSE classified)
              /\ DOMAIN data # {}
              /\ api_call = [handler |-> action_map[intent], intent |-> intent,
                             data |-> data])
    /\ [](pc \in {"read", "classify", "extract", "remap", "dispatch"} =>
              api_call = NoCall /\ HandlerCalls(calls) = 0 /\ EnrichCalls(calls) = 0)
    /\ [](pc = "print" /\ fault_at \notin {"classify", "extract"} => api_call # NoCall)
    /\ [](pc \in {"print", "crashed"} /\ fault_at \in {"classify", "extract"} =>
              api_call = NoCall)
    /\ [][EnrichCalls(calls') > EnrichCalls(calls) =>
              pc \in {"enrich", "insight"} /\ result # None /\ exc = NoExc]_vars

\* A task query has gone through its binding, its handler and the fetch of
\* the completed tasks of the enrichment.
C14_Witness ==
    /\ pc = "insight"
    /\ api_call.handler = "check_tasks"
    /\ calls.store_list = 1
    /\ calls.store_completed = 1
    /\ result # None

\* The time string of the current action parses with "%I:%M %p" (line 163).
TimeParses == strptime_time(Strip(time)).ok

\* C15: in handle_productivity a task is submitted only after its time string
\* has parsed: at the submission the time string parses and due_time is
\* today's date with the parsed time.  A pass of the loop whose parse fails
\* makes exactly one Time Normalizer call and, when the call returns, its
\* trimmed output is the time string of the next pass; a pass whose parse
\* succeeds makes none.  No pass of the loop submits to the store.
C15_ParseBeforeSubmit ==
    /\ [](pc = "hp_submit" =>
              /\ TimeParses
              /\ \E now \in NowSet :
                     due_time = Combine(DateOf(now), strptime_time(Strip(time)).tm))
    /\ [][InTimeLoop /\ ~TimeParses =>
              /\ calls'.llm_correct = Min(calls.llm_correct + 1, MaxCorrections)
              /\ pc' # "hp_submit"
              /\ pc' = "hp_time" =>
                     \E text \in CorrectionTexts :
                         /\ time' = Strip(text)
                         /\ \/ time' = ""
                            \/ /\ ~IsSpace(CharAt(time', 1))
                               /\ ~IsSpace(CharAt(time', Len(time')))]_vars
    /\ [][InTimeLoop /\ TimeParses =>
              /\ calls'.llm_correct = calls.llm_correct
              /\ time' = time
              /\ pc' = "hp_submit"]_vars
    /\ [][InTimeLoop => calls'.store_add = calls.store_add /\ tasks' = tasks]_vars

\* The second action's time "noon" did not parse, the Time Normalizer's
\* reply " 12:00 PM\n" came back trimmed, parsed, and the task is about to be
\* submitted for 12:00.
C15_Witness ==
    /\ pc = "hp_submit"
    /\ idx = 2
    /\ calls.llm_correct >= 1
    /\ time = "12:00 PM"
    /\ due_time.H = 12 /\ due_time.M = 0

StoreCalls(c) == c.store_add + c.store_list + c.store_completed + c.store_done

\* C17: the tasks of the store change only in a request classified
\* TASK_MANAGEMENT or PRODUCTIVITY, and then only by one task added at the
\* end.  A request classified TASK_QUERY makes no add call, and a request
\* classified LOCATION_QUERY, GENERAL_QUERY or UNKNOWN makes no store call at
\* all, whatever its outcome.
C17_StoreFrame ==
    /\ [][tasks' # tasks =>
              /\ classified \in {TASK_MANAGEMENT, PRODUCTIVITY}
              /\ Len(tasks') = Len(tasks) + 1
              /\ SubSeq(tasks', 1, Len(tasks)) = tasks]_vars
    /\ [](classified = TASK_QUERY => calls.store_add = 0 /\ calls.store_done = 0)
    /\ [](classified \in {LOCATION_QUERY, GENERAL_QUERY, UNKNOWN} => StoreCalls(calls) = 0)

\* A request classified UNKNOWN has been answered, with a task in the store
\* and no store call made.
C17_Witness ==
    /\ pc = "print"
    /\ classified = UNKNOWN
    /\ outcome = "success"
    /\ Len(tasks) >= 1
    /\ StoreCalls(calls) = 0

\* The text the request shows so far: the response once there is one, the
\* handler's result before.
Shown == IF response # None THEN response ELSE result

\* The confirmation of an add for the task named x.
Confirms(text, x) == TagOccurs("Added task: " \o x \o " due ", text)

\* C18: no false confirmation.  A step that puts an "Added task" text in
\* the result of add_task, or an "Added task" line in the lines of
\* handle_productivity, is a step in which the store's add for that task was
\* called and put the task in the store; a step whose add fails adds no such
\* text.  What the request shows confirms a task only if that add succeeded
\* in this request.
C18_NoFalseConfirmation ==
    /\ [][Running("add_task") =>
              \A x \in {api_call.data.task_name} :
                  Confirms(Shown', x) <=>
                      /\ calls'.store_add = calls.store_add + 1
                      /\ tasks' = Append(tasks, [summary |-> x, due |-> api_call.data.due])]_vars
    /\ [][pc = "hp_submit" =>
              /\ Len(scheduled_tasks') = Len(scheduled_tasks) + 1
              /\ calls'.store_add = calls.store_add + 1
              /\ Confirms(scheduled_tasks'[Len(scheduled_tasks')], Strip(actions[idx].action))
                     <=> tasks' = Append(tasks, [summary |-> Strip(actions[idx].action),
                                                 due |-> due_time])]_vars
    /\ [](api_call.handler = "add_task" /\ Confirms(Shown, api_call.data.task_name) =>
              /\ calls.store_add = 1
              /\ exc.type # "RuntimeError"
              /\ Len(tasks) >= 1
              /\ tasks[Len(tasks)].summary = api_call.data.task_name)
    /\ [](api_call.handler = "add_task" /\ exc = RuntimeError(AddFailedError) =>
              ~TagOccurs("Added task", Shown))
    /\ [](InProductivity /\ pc \in {"enrich", "print"} =>
              \A k \in 1..Len(actions) :
                  Confirms(Shown, Strip(actions[k].action)) =>
                      /\ k <= Len(added) /\ added[k]
                      /\ \E j \in 1..Len(tasks) : tasks[j].summary = Strip(actions[k].action))

\* handle_productivity has returned with the first add failed and the second
\* one done: the text confirms "Plan" and not "Walk".
C18_Witness ==
    /\ pc = "enrich"
    /\ InProductivity
    /\ added = <<FALSE, TRUE>>
    /\ Confirms(Shown, "Plan")
    /\ ~Confirms(Shown, "Walk")
    /\ TagOccurs("Failed to add task: Walk", Shown)

\* The request was classified UNKNOWN or GENERAL_QUERY.
GeneralOrUnknown == classified \in {UNKNOWN, GENERAL_QUERY}

\* extract_structured_data gives intent i the raw text as the query.
RawQuery(s, i) ==
    \A name_line \in NameLines, due_line \in DueLines, now \in NowSet :
        \E e \in {extract_structured_data(s, i, name_line, due_line, now)} :
            e.ok /\ DOMAIN e.data = {"query"} /\ e.data.query = s

\* C19: a request classified UNKNOWN is processed as the same text
\* classified GENERAL_QUERY.  Both get the raw text as their query, prompt no
\* operator, are bound to handle_general_query for the intent GENERAL_QUERY,
\* make one answering model call at most and no store or enrichment call; and
\* what they return is a function of the model's answer alone: the trimmed
\* answer, or the unexpected-error text of the failed call.
C19_UnknownAsGeneralQuery ==
    /\ [](\A s \in UserInputs : RawQuery(s, UNKNOWN) /\ RawQuery(s, GENERAL_QUERY))
    /\ [](GeneralOrUnknown /\ pc \notin {"extract", "read", "classify"} =>
              /\ DOMAIN data = {"query"} /\ data.query = user_input
              /\ calls.prompt = 0
              /\ StoreCalls(calls) = 0 /\ EnrichCalls(calls) = 0
              /\ calls.llm_advice = 0 /\ calls.llm_correct = 0
              /\ calls.llm_classify = 1 /\ calls.llm_answer <= 1
              /\ insights = None)
    /\ [](GeneralOrUnknown /\ pc \in {"dispatch", "execute", "enrich", "print"} =>
              intent = GENERAL_QUERY)
    /\ [](GeneralOrUnknown /\ pc \in {"execute", "enrich", "print"} =>
              /\ api_call.handler = "handle_general_query"
              /\ api_call.intent = GENERAL_QUERY
              /\ DOMAIN api_call.data = {"query"} /\ api_call.data.query = user_input)
    /\ [](GeneralOrUnknown => pc \notin {"hp_time", "hp_submit", "insight", "crashed"})
    /\ [][\A reply \in LLMReplies(AnswerTexts) :
              GeneralOrUnknown /\ ActionExecutor_handle_query(reply) =>
                  IF reply.ok
                  THEN result' = Strip(reply.text) /\ pc' = "enrich"
                  ELSE response' = UnexpectedResponse(reply.text) /\ pc' = "print"]_vars
    /\ [](GeneralOrUnknown /\ pc = "print" =>
              /\ calls.llm_answer = 1
              /\ outcome = "success" => response = result
              /\ outcome # "success" => outcome = "unexpected" /\ result = None)

\* A request classified UNKNOWN has been answered with the model's trimmed
\* answer after one answering call.
C19_Witness ==
    /\ pc = "print"
    /\ classified = UNKNOWN
    /\ intent = GENERAL_QUERY
    /\ api_call.handler = "handle_general_query"
    /\ calls.llm_answer = 1
    /\ response = "Try the library."

====
